---- MODULE Spec2Model ----
(***************************************************************************)
(* A model of scripts/fetch_curated_models.py: the price table loader and  *)
(* matcher, the model resolver (search_model_details), the two enrichment  *)
(* loops and the writing of the output files.                              *)
(*                                                                         *)
(* Python strings are sequences of one-character strings, so that lower(), *)
(* strip(), replace(), split() and the `in` test are computed, not assumed.*)
(* None is the sequence NoneVal, a missing dict key is Absent; neither can *)
(* be confused with a string, whose elements are single characters.        *)
(* An optional value (a dict or None) is a sequence of length 0 or 1.      *)
(*                                                                         *)
(* Four specifications share the actions:                                  *)
(*   SpecPricing  load_pricing_data on any pricing.json, then calls of     *)
(*                match_pricing;                                           *)
(*   SpecSearch   one call of search_model_details, any name and creator,  *)
(*                the API answering anything of Responses;                 *)
(*   Spec         one run of the script, the API answering anything of     *)
(*                SampleResponses;                                         *)
(*   SpecTwoRuns  the script run twice on the same inputs, the second run  *)
(*                answered as the first was.                               *)
(* The start-up test of RUNWARE_API_KEY and what is printed are left out.  *)
(***************************************************************************)
EXTENDS Naturals, Sequences, FiniteSets

VARIABLES
    pc,             \* where the script is
    pricing_file,   \* pricing.json: [exists, models]
    PRICING_DATA,   \* the lookup dict, as its (key, record) items in insertion order
    load_i,         \* index of the next pricing.json entry to load
    lookup_name,    \* the last name match_pricing was called with
    lookup_result,  \* what that call returned
    \* search_model_details, the call in progress
    spc,            \* "idle", "request" (top of the loop over search_terms), "score", "returned"
    model_name,     \* its argument model_name
    creator,        \* its argument creator (NoneVal when not given)
    search_terms,   \* the de-duplicated variations
    term_i,         \* index of the current search_term
    results,        \* the results of the current response still to score
    best_match,
    best_score,
    search_ret,     \* the value returned
    taskUUID,       \* the taskUUID of the last request body
    \* history of the call in progress
    scored,         \* the scores computed so far
    offered,        \* the kinds of match (MatchKind) of the results received so far
    best_kind,      \* the kind of match of best_match
    best_base,      \* the score of best_match before the creator bonus
    requests,       \* the number of requests posted
    raised,         \* whether the call ended in the except branch
    \* the remote search API: the set it answers from, "catalog" (Responses) or
    \* "sample" (SampleResponses)
    api,
    \* __main__ and the enrichment loops
    POPULAR_MODELS, \* the curated list
    page,           \* the collection page: [status, cards]
    today,
    \* a second run of the script on the same inputs and the same API responses
    run,            \* 0: a single run; 1, 2: the first and the second of two runs
    tape,           \* the responses of the first run, in order, still to be given again
    first_files,    \* the files the first run wrote
    models_list,    \* the list being enriched
    idx,            \* index of the entry being processed
    enriched,
    files,          \* the output files written: [popular, best], each None or Some(file)
    \* history of the loop in progress
    outcome,        \* per entry processed: [ok, raised, resolved]
    src             \* per record of enriched: the index of its entry in models_list

pricing_vars == <<pricing_file, PRICING_DATA, load_i, lookup_name, lookup_result>>

search_vars == <<spc, model_name, creator, search_terms, term_i, results, best_match,
                 best_score, search_ret, taskUUID, scored, offered, best_kind, best_base,
                 requests, raised>>

env_vars == <<api, POPULAR_MODELS, page, today, run, first_files>>

main_vars == <<env_vars, tape, models_list, idx, enriched, files, outcome, src>>

vars == <<pc, pricing_vars, search_vars, main_vars>>

---------------------------------------------------------------------------
(* Bounds of the model. *)

MaxPricing == 2

MaxResults == 2

MaxList == 2

---------------------------------------------------------------------------
(* Python values. *)

NoneVal == <<"None">>

Absent == <<"Absent">>

None == <<>>

Some(x) == <<x>>

Get(v) == IF v = Absent THEN NoneVal ELSE v

GetDefault(v, d) == IF v = Absent THEN d ELSE v

Truthy(v) == v # NoneVal /\ v # <<>>

Min(S) == CHOOSE x \in S : \A y \in S : x <= y

Max(S) == CHOOSE x \in S : \A y \in S : x >= y

---------------------------------------------------------------------------
(* Python str methods. *)

Uppers == <<"A","B","C","D","E","F","G","H","I","J","K","L","M",
            "N","O","P","Q","R","S","T","U","V","W","X","Y","Z">>

Lowers == <<"a","b","c","d","e","f","g","h","i","j","k","l","m",
            "n","o","p","q","r","s","t","u","v","w","x","y","z">>

LowerChar(c) ==
    IF \E k \in 1..Len(Uppers) : Uppers[k] = c
    THEN Lowers[CHOOSE k \in 1..Len(Uppers) : Uppers[k] = c]
    ELSE c

Lower(s) == [k \in 1..Len(s) |-> LowerChar(s[k])]

Strip(s) ==
    LET at == {k \in 1..Len(s) : s[k] # " "}
    IN  IF at = {} THEN <<>> ELSE SubSeq(s, Min(at), Max(at))

IsAt(pat, s, k) ==
    /\ k + Len(pat) - 1 <= Len(s)
    /\ \A j \in 1..Len(pat) : s[k + j - 1] = pat[j]

\* pat in s
Contains(pat, s) == \E k \in 1..(Len(s) + 1) : IsAt(pat, s, k)

RECURSIVE ReplaceFrom(_, _, _, _)
ReplaceFrom(s, pat, rep, k) ==
    IF k > Len(s) THEN <<>>
    ELSE IF IsAt(pat, s, k) THEN rep \o ReplaceFrom(s, pat, rep, k + Len(pat))
    ELSE <<s[k]>> \o ReplaceFrom(s, pat, rep, k + 1)

\* s.replace(pat, rep), pat not empty
Replace(s, pat, rep) == ReplaceFrom(s, pat, rep, 1)

\* s.split('(')[0]
BeforeParen(s) ==
    LET at == {k \in 1..Len(s) : s[k] = "("}
    IN  IF at = {} THEN s ELSE SubSeq(s, 1, Min(at) - 1)

\* set(s.split())
Words(s) ==
    {SubSeq(s, a, b) : <<a, b>> \in
        {p \in (1..Len(s)) \X (1..Len(s)) :
            /\ p[1] <= p[2]
            /\ \A k \in p[1]..p[2] : s[k] # " "
            /\ (p[1] = 1 \/ s[p[1] - 1] = " ")
            /\ (p[2] = Len(s) \/ s[p[2] + 1] = " ")}}

\* the literals '\u00ac\u2211' (line 62) and '\u201a\u00c4\u00eb' (line 186), a
\* character written as its code point
MiddleDot == <<"U+00AC", "U+2211">>

DashLike == <<"U+201A", "U+00C4", "U+00EB">>

---------------------------------------------------------------------------
(* The price table. *)

\* the dict operations on the items list
InDict(d, key) == \E k \in 1..Len(d) : d[k].key = key

DictGet(d, key) == d[CHOOSE k \in 1..Len(d) : d[k].key = key].rec

DictSet(d, key, rec) ==
    IF InDict(d, key)
    THEN [k \in 1..Len(d) |-> IF d[k].key = key THEN [key |-> key, rec |-> rec] ELSE d[k]]
    ELSE Append(d, [key |-> key, rec |-> rec])

PricingKey_NotLowered(model) == Strip(GetDefault(model.name, <<>>))

PricingKey(model) == Strip(Lower(GetDefault(model.name, <<>>)))

PricingRecord(model) ==
    [price_usd     |-> Get(model.price_usd),
     configuration |-> Get(model.configuration),
     discount      |-> Get(model.discount)]

match_pricing(name) ==
    IF PRICING_DATA = <<>> THEN None
    ELSE
    LET name_lower == Strip(Lower(name))
        variations == <<
            Replace(Replace(name_lower, <<"[">>, <<>>), <<"]">>, <<>>),
            Strip(Replace(name_lower, MiddleDot, <<>>)),
            Replace(name_lower, <<"-">>, <<" ">>),
            Strip(BeforeParen(name_lower)) >>
        hits == {k \in 1..Len(variations) : InDict(PRICING_DATA, variations[k])}
        partial == {k \in 1..Len(PRICING_DATA) :
            LET price_name == PRICING_DATA[k].key
                name_words == Words(name_lower)
                price_words == Words(price_name)
                common_words == name_words \cap price_words
                smaller == IF Cardinality(name_words) <= Cardinality(price_words)
                           THEN Cardinality(name_words) ELSE Cardinality(price_words)
            IN  /\ Contains(name_lower, price_name) \/ Contains(price_name, name_lower)
                \* len(common_words) >= min(...) * 0.6
                /\ 10 * Cardinality(common_words) >= 6 * smaller}
    IN  IF InDict(PRICING_DATA, name_lower) THEN Some(DictGet(PRICING_DATA, name_lower))
        ELSE IF hits # {} THEN Some(DictGet(PRICING_DATA, variations[Min(hits)]))
        ELSE IF partial # {} THEN Some(PRICING_DATA[Min(partial)].rec)
        ELSE None

---------------------------------------------------------------------------
(* search_model_details: the variations, the score of a result. *)

PerfectScore == 100

ContainsScore == 80

WordScore == 20

CreatorBonus == 10

AcceptScore == 40

search_variations(name) ==
    << name,
       Replace(Replace(name, <<"[">>, <<>>), <<"]">>, <<>>),
       Replace(name, DashLike, <<"-">>),
       Strip(BeforeParen(name)) >>

Range(q) == {q[k] : k \in 1..Len(q)}

\* "Remove duplicates while preserving order", the first k variations done
RECURSIVE DedupTerms(_, _)
DedupTerms(v, k) ==
    IF k = 0 THEN <<>>
    ELSE LET done == DedupTerms(v, k - 1)
         IN  IF v[k] # <<>> /\ v[k] \notin Range(done) THEN Append(done, v[k]) ELSE done

SearchTerms(name) == DedupTerms(search_variations(name), 4)

\* str(v) of a string or None inside a dict
Repr(v) == IF v = NoneVal THEN <<"N", "o", "n", "e">> ELSE <<"'">> \o v \o <<"'">>

RECURSIVE ReprList(_)
ReprList(l) ==
    IF l = <<>> THEN <<>>
    ELSE Repr(Head(l)) \o (IF Len(l) > 1 THEN <<",", " ">> ELSE <<>>) \o ReprList(Tail(l))

Item(key, v) == IF v = Absent THEN <<>> ELSE << <<"'">> \o key \o <<"'", ":", " ">> \o Repr(v) >>

RECURSIVE Join(_)
Join(items) ==
    IF items = <<>> THEN <<>>
    ELSE Head(items) \o (IF Len(items) > 1 THEN <<",", " ">> ELSE <<>>) \o Join(Tail(items))

\* str(result): the keys the response gave, in its order
StrResult(result) ==
    <<"{">> \o
    Join( Item(<<"n", "a", "m", "e">>, result.name)
       \o Item(<<"a", "i", "r">>, result.air)
       \o Item(<<"c", "a", "t", "e", "g", "o", "r", "y">>, result.category)
       \o Item(<<"t", "y", "p", "e">>, result.type)
       \o Item(<<"a", "r", "c", "h", "i", "t", "e", "c", "t", "u", "r", "e">>, result.architecture)
       \o (IF result.tags = None THEN <<>>
           ELSE << <<"'", "t", "a", "g", "s", "'", ":", " ", "[">> \o ReprList(result.tags[1]) \o <<"]">> >>) )
    \o <<"}">>

\* which branch of lines 229-240 scores the result
MatchKind(result_name, search_lower, original_lower) ==
    IF result_name = original_lower \/ result_name = search_lower THEN "exact"
    ELSE IF Contains(search_lower, result_name) \/ Contains(result_name, search_lower) THEN "contains"
    ELSE "words"

BaseScore_ContainsFirst(result_name, search_lower, original_lower) ==
    LET words == Words(Replace(original_lower, <<"-">>, <<" ">>))
        result_words == Words(Replace(result_name, <<"-">>, <<" ">>))
    IN  IF Contains(search_lower, result_name) \/ Contains(result_name, search_lower)
        THEN ContainsScore
        ELSE IF result_name = original_lower \/ result_name = search_lower THEN PerfectScore
        ELSE Cardinality(words \cap result_words) * WordScore

BaseScore(result_name, search_lower, original_lower) ==
    LET kind == MatchKind(result_name, search_lower, original_lower)
        words == Words(Replace(original_lower, <<"-">>, <<" ">>))
        result_words == Words(Replace(result_name, <<"-">>, <<" ">>))
        common_words == words \cap result_words
    IN  IF kind = "exact" THEN PerfectScore
        ELSE IF kind = "contains" THEN ContainsScore
        ELSE Cardinality(common_words) * WordScore

Bonus(result, cr, score) ==
    IF Truthy(cr) /\ score > 0 /\ Contains(Lower(cr), Lower(StrResult(result)))
    THEN CreatorBonus ELSE 0

\* the score of a result whose name is not None
Score(result, search_term, name, cr) ==
    LET base == BaseScore(Lower(GetDefault(result.name, <<>>)), Lower(search_term), Lower(name))
    IN  base + Bonus(result, cr, base)

KindOf(result, search_term, name) ==
    IF result.name = NoneVal THEN "null"
    ELSE MatchKind(Lower(GetDefault(result.name, <<>>)), Lower(search_term), Lower(name))

IsBetter_OrEqual(score, best) == score >= best

IsBetter(score, best) == score > best

BestMatchOf_WithRequestId(result) ==
    [air          |-> Get(result.air),
     name         |-> Get(result.name),
     category     |-> Get(result.category),
     type         |-> Get(result.type),
     architecture |-> Get(result.architecture),
     tags         |-> (IF result.tags = None THEN <<>> ELSE result.tags[1]) \o <<taskUUID>>]

\* lines 251-258
BestMatchOf(result) ==
    [air          |-> Get(result.air),
     name         |-> Get(result.name),
     category     |-> Get(result.category),
     type         |-> Get(result.type),
     architecture |-> Get(result.architecture),
     tags         |-> IF result.tags = None THEN <<>> ELSE result.tags[1]]

Accepted_AnyShared(match, score) == match # None /\ score >= WordScore

Accepted(match, score) == match # None /\ score >= AcceptScore

---------------------------------------------------------------------------
(* scrape_collection_models.  The page is the sequence of its model links  *)
(* (<a href="/models/ID">), each with the <h3> heading that follows it     *)
(* before the next link, if any.                                           *)

IsUpper(c) == \E k \in 1..Len(Uppers) : Uppers[k] = c

IsLower(c) == \E k \in 1..Len(Lowers) : Lowers[k] = c

UpperChar(c) ==
    IF IsLower(c) THEN Uppers[CHOOSE k \in 1..Len(Lowers) : Lowers[k] = c] ELSE c

\* str.title()
Title(s) ==
    [k \in 1..Len(s) |->
        IF k > 1 /\ (IsUpper(s[k - 1]) \/ IsLower(s[k - 1])) THEN LowerChar(s[k])
        ELSE UpperChar(s[k])]

\* lines 153-160: the first heading from the first link to model_id on, else the
\* id made readable
ScrapedName(cards, k) ==
    LET headed == {j \in k..Len(cards) : cards[j].heading # Absent}
    IN  IF headed # {} THEN Strip(cards[Min(headed)].heading)
        ELSE Title(Replace(cards[k].model_id, <<"-">>, <<" ">>))

RECURSIVE ScrapeFrom(_, _)
ScrapeFrom(cards, k) ==
    IF k > Len(cards) THEN <<>>
    ELSE IF \E j \in 1..(k - 1) : cards[j].model_id = cards[k].model_id
    THEN ScrapeFrom(cards, k + 1)
    ELSE <<[model_id |-> cards[k].model_id, name |-> ScrapedName(cards, k), air |-> NoneVal]>>
         \o ScrapeFrom(cards, k + 1)

scrape_collection_models(pg) ==
    IF pg.status = "error" THEN <<>> ELSE ScrapeFrom(pg.cards, 1)

---------------------------------------------------------------------------
(* The records the enrichment loops emit. *)

\* lines 299-304 and 348-353: the price keys set on the record
PriceFields(pricing) ==
    IF pricing = None
    THEN [price_usd |-> Absent, price_configuration |-> Absent, price_discount |-> Absent]
    ELSE [price_usd |-> pricing[1].price_usd,
          price_configuration |-> IF Truthy(pricing[1].configuration)
                                  THEN pricing[1].configuration ELSE Absent,
          price_discount |-> IF Truthy(pricing[1].discount)
                             THEN pricing[1].discount ELSE Absent]

Record(name, cr, model_id, api_data, price) ==
    [name |-> name, creator |-> cr, model_id |-> model_id,
     air |-> api_data.air, category |-> api_data.category, type |-> api_data.type,
     architecture |-> api_data.architecture, tags |-> api_data.tags,
     price_usd |-> price.price_usd, price_configuration |-> price.price_configuration,
     price_discount |-> price.price_discount]

\* line 298
PricingNameByName(name, api_data) == name

PricingNameById_Scraped(api_data, scraped_name) == scraped_name

\* lines 338 and 347: api_data.get("name") or scraped_name
PricingNameById(api_data, scraped_name) ==
    IF Truthy(api_data.name) THEN api_data.name ELSE scraped_name

\* lines 287-304
EnrichedByName(model, api_data) ==
    Record(model.name, model.creator, Absent, api_data,
           PriceFields(match_pricing(PricingNameByName(model.name, api_data))))

\* lines 336-353
EnrichedById(model, api_data) ==
    Record(PricingNameById(api_data, model.name), Absent, model.model_id, api_data,
           PriceFields(match_pricing(PricingNameById(api_data, model.name))))

OutputFile_InputCount(source, collection, date, models) ==
    [source |-> source, collection |-> collection, date_extracted |-> date,
     total_models |-> Len(models_list), models |-> models]

\* lines 382-388 and 414-420
OutputFile(source, collection, date, models) ==
    [source |-> source, collection |-> collection, date_extracted |-> date,
     total_models |-> Len(models), models |-> models]

Emit_Prepend(list, record) == <<record>> \o list

\* lines 309 and 358
Emit(list, record) == Append(list, record)

---------------------------------------------------------------------------
(* Inputs: the names and prices a pricing.json may hold. *)

P004 == <<"0", ".", "0", "4">>

P010 == <<"0", ".", "1">>

Cfg == <<"1", "k">>

PriceEntry(name, price, configuration, discount) ==
    [name |-> name, price_usd |-> price, configuration |-> configuration, discount |-> discount]

PriceEntries ==
    { PriceEntry(<<"F", "x", " ", "d">>, P004, Cfg, Absent),
      PriceEntry(<<" ", "f", "x", " ", "D">>, P010, Absent, NoneVal),
      PriceEntry(<<"I", "m", " ", "4">>, P010, Absent, Absent),
      PriceEntry(<<"i", "m", " ", "4", " ", "f">>, P004, NoneVal, Cfg),
      PriceEntry(Absent, Absent, Absent, Absent) }

RECURSIVE SeqsUpTo(_, _)
SeqsUpTo(S, n) ==
    IF n = 0 THEN {<<>>}
    ELSE LET shorter == SeqsUpTo(S, n - 1)
         IN  shorter \cup {Append(q, x) : q \in {r \in shorter : Len(r) = n - 1}, x \in S}

PricingFiles ==
    {[exists |-> FALSE, models |-> <<>>]} \cup
    {[exists |-> TRUE, models |-> m] : m \in SeqsUpTo(PriceEntries, MaxPricing)}

LookupNames ==
    { <<"F", "x", " ", "[", "d", "]">>, <<"F", "x", "-", "d">>, <<"I", "m", " ", "4", " ", "P">>,
      <<"I", "m">>, <<"f", "x", " ", "d", " ", "(", "x", ")">>, <<"O", "b">> }

---------------------------------------------------------------------------
(* Inputs: the names searched for and what the search API may answer. *)

Result(name, air, category, tags) ==
    [name |-> name, air |-> air, category |-> category, type |-> Absent,
     architecture |-> Absent, tags |-> tags]

Google == <<"G", "o">>

\* "Imagen 4 Fast", "FLUX.2 [dev]", "Qwen-Image-Edit", "Object Eraser (x)", shortened
ImFast == <<"I", "m", " ", "4", " ", "F">>

FxDev == <<"F", "x", " ", "[", "d", "]">>

QImE == <<"Q", "-", "I", "m", "-", "E">>

ObX == <<"O", "b", " ", "(", "x", ")">>

SearchNames == {ImFast, FxDev, QImE, ObX, <<"Z">> \o DashLike \o <<"T">>}

Creators == {NoneVal, Google}

Catalog ==
    { Result(<<"i", "m", " ", "4", " ", "f">>, <<"g", ":", "1">>, Absent, None),
      Result(<<"I", "m", " ", "4">>, <<"g", ":", "2">>, NoneVal, Some(<< <<"g", "o">> >>)),
      Result(<<"I", "m", " ", "9">>, NoneVal, <<"G", "O">>, Some(<<>>)),
      Result(<<"F", "x", " ", "d">>, Absent, Absent, None),
      Result(<<"Q", " ", "I", "m">>, <<"a", ":", "1">>, Absent, None),
      Result(<<"o", "b", " ", "(", "X", ")">>, <<"o", ":", "1">>, Absent, None),
      Result(Absent, <<"x", ":", "9">>, Absent, None),
      Result(NoneVal, <<"x", ":", "8">>, Absent, None) }

\* what one requests.post can come to: an exception (network error, timeout,
\* resp.json() failing, a body of another shape), a status other than 200, a
\* body without data, or the results of data["data"][0]
Responses ==
    {[kind |-> k, results |-> <<>>] : k \in {"raise", "non200", "nodata"}} \cup
    {[kind |-> "ok", results |-> r] : r \in SeqsUpTo(Catalog, MaxResults)}

\* the answers of the smaller API the whole pipeline is run against
SampleCatalog ==
    { Result(<<"i", "m", " ", "4", " ", "f">>, <<"g", ":", "1">>, Absent, None),
      Result(<<"F", "x", " ", "d">>, Absent, Absent, None),
      Result(Absent, <<"x", ":", "9">>, Absent, None) }

SampleResponses ==
    {[kind |-> k, results |-> <<>>] : k \in {"raise", "non200", "nodata"}} \cup
    {[kind |-> "ok", results |-> <<r>>] : r \in SampleCatalog}

ResponsesOf(a) == IF a = "catalog" THEN Responses ELSE SampleResponses

\* uuid.uuid4(): no value is drawn in two runs
UUIDs(r) == IF r = 2 THEN {<<"u", "3">>, <<"u", "4">>} ELSE {<<"u", "1">>, <<"u", "2">>}

---------------------------------------------------------------------------
(* search_model_details, step by step. *)

\* the call: lines 181-197
BeginSearch(name, cr) ==
    /\ spc' = "request"
    /\ model_name' = name
    /\ creator' = cr
    /\ search_terms' = SearchTerms(name)
    /\ term_i' = 1
    /\ results' = <<>>
    /\ best_match' = None
    /\ best_score' = 0
    /\ search_ret' = None
    /\ scored' = {}
    /\ offered' = {}
    /\ best_kind' = "none"
    /\ best_base' = 0
    /\ requests' = 0
    /\ raised' = FALSE
    /\ UNCHANGED taskUUID

Raise_ReturnsBest ==
    /\ spc' = "returned"
    /\ search_ret' = best_match
    /\ raised' = TRUE

\* the except branch: lines 270-272
Raise ==
    /\ spc' = "returned"
    /\ search_ret' = None
    /\ raised' = TRUE

NextTerm ==
    /\ term_i' = term_i + 1
    /\ spc' = "request"
    /\ results' = <<>>

\* lines 199-218: one request, for search_terms[term_i]
DoRequest(resp, uuid) ==
    /\ spc = "request"
    /\ term_i <= Len(search_terms)
    /\ taskUUID' = uuid
    /\ requests' = requests + 1
    /\ offered' = offered \cup
         {KindOf(resp.results[k], search_terms[term_i], model_name) : k \in 1..Len(resp.results)}
    /\ IF resp.kind = "raise"
       THEN Raise /\ UNCHANGED <<term_i, results>>
       ELSE IF resp.kind \in {"non200", "nodata"} \/ resp.results = <<>>
       THEN NextTerm /\ UNCHANGED <<search_ret, raised>>
       ELSE /\ results' = resp.results
            /\ spc' = "score"
            /\ UNCHANGED <<term_i, search_ret, raised>>
    /\ UNCHANGED <<model_name, creator, search_terms, best_match, best_score, scored,
                   best_kind, best_base>>

\* the API answers
SendRequest ==
    /\ run # 2
    /\ \E resp \in ResponsesOf(api), uuid \in UUIDs(run) :
        /\ DoRequest(resp, uuid)
        /\ tape' = IF run = 1 THEN Append(tape, resp) ELSE tape
    /\ UNCHANGED <<pc, pricing_vars, env_vars, models_list, idx, enriched, files, outcome, src>>

\* the API answers the second run as it answered the first
ReplayRequest ==
    /\ run = 2
    /\ tape # <<>>
    /\ \E uuid \in UUIDs(run) : DoRequest(Head(tape), uuid)
    /\ tape' = Tail(tape)
    /\ UNCHANGED <<pc, pricing_vars, env_vars, models_list, idx, enriched, files, outcome, src>>

\* lines 221-262: one result scored
ScoreResult ==
    /\ spc = "score"
    /\ LET result == Head(results)
           search_term == search_terms[term_i]
       IN  IF result.name = NoneVal
           THEN \* None.lower()
                /\ Raise
                /\ UNCHANGED <<term_i, results, best_match, best_score, scored, best_kind, best_base>>
           ELSE LET score == Score(result, search_term, model_name, creator)
                    better == IsBetter(score, best_score)
                IN  /\ scored' = scored \cup {score}
                    /\ best_score' = IF better THEN score ELSE best_score
                    /\ best_match' = IF better THEN Some(BestMatchOf(result)) ELSE best_match
                    /\ best_kind' = IF better THEN KindOf(result, search_term, model_name)
                                    ELSE best_kind
                    /\ best_base' = IF better
                                    THEN BaseScore(Lower(GetDefault(result.name, <<>>)),
                                                   Lower(search_term), Lower(model_name))
                                    ELSE best_base
                    /\ IF score >= PerfectScore
                       THEN /\ spc' = "returned"
                            /\ search_ret' = best_match'
                            /\ UNCHANGED <<term_i, results, raised>>
                       ELSE IF Len(results) = 1
                       THEN NextTerm /\ UNCHANGED <<search_ret, raised>>
                       ELSE /\ results' = Tail(results)
                            /\ UNCHANGED <<spc, term_i, search_ret, raised>>
    /\ UNCHANGED <<pc, pricing_vars, main_vars, model_name, creator, search_terms, taskUUID,
                   offered, requests>>

\* lines 264-268: the variations are exhausted
SearchFinish ==
    /\ spc = "request"
    /\ term_i > Len(search_terms)
    /\ spc' = "returned"
    /\ search_ret' = IF Accepted(best_match, best_score) THEN best_match ELSE None
    /\ UNCHANGED <<pc, pricing_vars, main_vars, model_name, creator, search_terms, term_i, results,
                   best_match, best_score, taskUUID, scored, offered, best_kind, best_base,
                   requests, raised>>

---------------------------------------------------------------------------
(* load_pricing_data: one step per entry of data["models"]. *)

LoadPricingEntry ==
    /\ pc = "load"
    /\ pricing_file.exists
    /\ load_i <= Len(pricing_file.models)
    /\ LET model == pricing_file.models[load_i]
       IN  PRICING_DATA' = DictSet(PRICING_DATA, PricingKey(model), PricingRecord(model))
    /\ load_i' = load_i + 1
    /\ UNCHANGED <<pc, pricing_file, lookup_name, lookup_result, search_vars, main_vars>>

LoadPricingDone ==
    /\ pc = "load"
    /\ ~pricing_file.exists \/ load_i > Len(pricing_file.models)
    /\ pc' = "loaded"
    /\ UNCHANGED <<pricing_vars, search_vars, main_vars>>

\* a call of match_pricing on the loaded table: with a stored key, or any other name
LookupPricing ==
    /\ pc = "loaded"
    /\ \E n \in LookupNames \cup {PRICING_DATA[k].key : k \in 1..Len(PRICING_DATA)} :
        /\ lookup_name' = n
        /\ lookup_result' = match_pricing(n)
    /\ UNCHANGED <<pc, pricing_file, PRICING_DATA, load_i, search_vars, main_vars>>

---------------------------------------------------------------------------
(* Inputs of the pipeline. *)

Curated(name, cr) == [name |-> name, creator |-> cr]

CuratedEntries ==
    { Curated(<<"I", "m", " ", "4">>, Google), Curated(FxDev, NoneVal) }

Card(model_id, heading) == [model_id |-> model_id, heading |-> heading]

Cards ==
    { Card(<<"i", "m", "-", "4">>, <<"I", "m", " ", "4", " ">>),
      Card(<<"f", "x", "-", "d">>, Absent),
      Card(<<"i", "m", "-", "4">>, <<" ">>) }

Pages ==
    {[status |-> "error", cards |-> <<>>]} \cup
    {[status |-> "ok", cards |-> c] : c \in SeqsUpTo(Cards, MaxList)}

SamplePricing ==
    { [exists |-> FALSE, models |-> <<>>],
      [exists |-> TRUE,
       models |-> << PriceEntry(<<"I", "m", " ", "4">>, P010, Absent, Absent),
                     PriceEntry(<<"i", "m", " ", "4", " ", "f">>, P004, NoneVal, Cfg),
                     PriceEntry(<<"F", "x", " ", "d">>, P004, Cfg, Absent) >>] }

\* the curated list and the page of a run: any list with a page of at most one link,
\* or any page with a list of at most one entry
Inputs ==
    {<<l, pg>> : l \in SeqsUpTo(CuratedEntries, MaxList),
                 pg \in {q \in Pages : Len(q.cards) <= 1}} \cup
    {<<l, pg>> : l \in SeqsUpTo(CuratedEntries, 1), pg \in Pages}

\* the inputs the script is run twice on
TwoRunInputs ==
    {<<l, pg>> : l \in {q \in SeqsUpTo(CuratedEntries, 1) : Len(q) = 1},
                 pg \in {q \in Pages : Len(q.cards) = 1}}

Date1 == <<"d", "1">>

Date2 == <<"d", "2">>

---------------------------------------------------------------------------
(* The enrichment loops and __main__. *)

\* the locals of a finished call of search_model_details are gone
SearchReset ==
    /\ spc' = "idle"
    /\ model_name' = NoneVal
    /\ creator' = NoneVal
    /\ search_terms' = <<>>
    /\ term_i' = 1
    /\ results' = <<>>
    /\ best_match' = None
    /\ best_score' = 0
    /\ search_ret' = None
    /\ taskUUID' = NoneVal
    /\ scored' = {}
    /\ offered' = {}
    /\ best_kind' = "none"
    /\ best_base' = 0
    /\ requests' = 0
    /\ raised' = FALSE

Outcome(api_data, r) ==
    [ok |-> api_data # None, raised |-> r,
     resolved |-> IF api_data = None THEN NoneVal ELSE api_data[1].name]

\* lines 286-316 and 335-365: api_data decides whether the entry is emitted
Finish(api_data, record) ==
    /\ enriched' = IF api_data # None THEN Emit(enriched, record) ELSE enriched
    /\ src' = IF api_data # None THEN Append(src, idx) ELSE src
    /\ outcome' = Append(outcome, Outcome(api_data, raised))
    /\ idx' = idx + 1
    /\ SearchReset

\* lines 370-381
MainStart ==
    /\ pc = "loaded"
    /\ pc' = "by_name"
    /\ models_list' = POPULAR_MODELS
    /\ idx' = 1
    /\ enriched' = <<>>
    /\ outcome' = <<>>
    /\ src' = <<>>
    /\ UNCHANGED <<pricing_vars, search_vars, env_vars, tape, files>>

\* enrich_models_by_name, lines 279-284: the next entry is searched by its name
NameBegin ==
    /\ pc = "by_name"
    /\ idx <= Len(models_list)
    /\ BeginSearch(models_list[idx].name, models_list[idx].creator)
    /\ pc' = "by_name_search"
    /\ UNCHANGED <<pricing_vars, main_vars>>

\* lines 286-316
NameEnd ==
    /\ pc = "by_name_search"
    /\ spc = "returned"
    /\ Finish(search_ret,
              IF search_ret = None THEN NoneVal
              ELSE EnrichedByName(models_list[idx], search_ret[1]))
    /\ pc' = "by_name"
    /\ UNCHANGED <<pricing_vars, env_vars, tape, models_list, files>>

\* lines 318, 382-392: the loop is over, popular_models.json is written
WritePopular ==
    /\ pc = "by_name"
    /\ idx > Len(models_list)
    /\ files' = [files EXCEPT !.popular =
                    Some(OutputFile("https://runware.ai/models", "Popular Models", today, enriched))]
    /\ pc' = "scrape"
    /\ UNCHANGED <<pricing_vars, search_vars, env_vars, tape, models_list, idx, enriched,
                   outcome, src>>

\* lines 398-408: the one collection of SCRAPE_COLLECTIONS is scraped
Scrape ==
    /\ pc = "scrape"
    /\ LET models == scrape_collection_models(page)
       IN  /\ pc' = IF models = <<>> THEN "done" ELSE "by_id"
           /\ models_list' = models
           /\ idx' = 1
           /\ enriched' = <<>>
           /\ outcome' = <<>>
           /\ src' = <<>>
    /\ UNCHANGED <<pricing_vars, search_vars, env_vars, tape, files>>

\* enrich_models_by_id, lines 325-333: by the scraped name if there is one, else by the id
IdBegin ==
    /\ pc = "by_id"
    /\ idx <= Len(models_list)
    /\ IF models_list[idx].name # <<>>
       THEN BeginSearch(models_list[idx].name, NoneVal) /\ pc' = "by_id_name"
       ELSE BeginSearch(models_list[idx].model_id, NoneVal) /\ pc' = "by_id_id"
    /\ UNCHANGED <<pricing_vars, main_vars>>

\* lines 332-333: the search by name found nothing, the id is searched
IdFallback ==
    /\ pc = "by_id_name"
    /\ spc = "returned"
    /\ search_ret = None
    /\ BeginSearch(models_list[idx].model_id, NoneVal)
    /\ pc' = "by_id_id"
    /\ UNCHANGED <<pricing_vars, main_vars>>

\* lines 335-365
IdEnd ==
    /\ \/ pc = "by_id_name" /\ spc = "returned" /\ search_ret # None
       \/ pc = "by_id_id" /\ spc = "returned"
    /\ Finish(search_ret,
              IF search_ret = None THEN NoneVal
              ELSE EnrichedById(models_list[idx], search_ret[1]))
    /\ pc' = "by_id"
    /\ UNCHANGED <<pricing_vars, env_vars, tape, models_list, files>>

\* lines 367, 414-425: the loop is over, best_models.json is written
WriteCollection ==
    /\ pc = "by_id"
    /\ idx > Len(models_list)
    /\ files' = [files EXCEPT !.best =
                    Some(OutputFile("https://runware.ai/collections/best-for-text-on-images",
                                    "Best for Text on Images", today, enriched))]
    /\ pc' = "done"
    /\ UNCHANGED <<pricing_vars, search_vars, env_vars, tape, models_list, idx, enriched,
                   outcome, src>>

SearchIdle ==
    /\ spc = "idle"
    /\ model_name = NoneVal
    /\ creator = NoneVal
    /\ search_terms = <<>>
    /\ term_i = 1
    /\ results = <<>>
    /\ best_match = None
    /\ best_score = 0
    /\ search_ret = None
    /\ taskUUID = NoneVal
    /\ scored = {}
    /\ offered = {}
    /\ best_kind = "none"
    /\ best_base = 0
    /\ requests = 0
    /\ raised = FALSE

\* the script is run again: same pricing.json, same list, same page, another day
Rerun ==
    /\ pc = "done"
    /\ run = 1
    /\ run' = 2
    /\ first_files' = files
    /\ \E d \in {Date1, Date2} : today' = d
    /\ pc' = "load"
    /\ PRICING_DATA' = <<>>
    /\ load_i' = 1
    /\ models_list' = <<>>
    /\ idx' = 1
    /\ enriched' = <<>>
    /\ files' = [popular |-> None, best |-> None]
    /\ outcome' = <<>>
    /\ src' = <<>>
    /\ UNCHANGED <<pricing_file, lookup_name, lookup_result, search_vars, api, POPULAR_MODELS,
                   page, tape>>

MainIdle ==
    /\ api = "catalog"
    /\ POPULAR_MODELS = <<>>
    /\ page = [status |-> "error", cards |-> <<>>]
    /\ today = NoneVal
    /\ run = 0
    /\ tape = <<>>
    /\ first_files = [popular |-> None, best |-> None]
    /\ models_list = <<>>
    /\ idx = 1
    /\ enriched = <<>>
    /\ files = [popular |-> None, best |-> None]
    /\ outcome = <<>>
    /\ src = <<>>

InitPricing ==
    /\ pc = "load"
    /\ SearchIdle
    /\ MainIdle
    /\ pricing_file \in PricingFiles
    /\ PRICING_DATA = <<>>
    /\ load_i = 1
    /\ lookup_name = NoneVal
    /\ lookup_result = None

NextPricing == LoadPricingEntry \/ LoadPricingDone \/ LookupPricing

SpecPricing == InitPricing /\ [][NextPricing]_vars

\* one call of search_model_details, with any name and creator hint
InitSearch ==
    /\ pc = "search"
    /\ MainIdle
    /\ pricing_file = [exists |-> FALSE, models |-> <<>>]
    /\ PRICING_DATA = <<>>
    /\ load_i = 1
    /\ lookup_name = NoneVal
    /\ lookup_result = None
    /\ spc = "request"
    /\ model_name \in SearchNames
    /\ creator \in Creators
    /\ search_terms = SearchTerms(model_name)
    /\ term_i = 1
    /\ results = <<>>
    /\ best_match = None
    /\ best_score = 0
    /\ search_ret = None
    /\ taskUUID = NoneVal
    /\ scored = {}
    /\ offered = {}
    /\ best_kind = "none"
    /\ best_base = 0
    /\ requests = 0
    /\ raised = FALSE

NextSearch == SendRequest \/ ScoreResult \/ SearchFinish

SpecSearch == InitSearch /\ [][NextSearch]_vars

\* one run of the script
Init ==
    /\ pc = "load"
    /\ pricing_file \in SamplePricing
    /\ PRICING_DATA = <<>>
    /\ load_i = 1
    /\ lookup_name = NoneVal
    /\ lookup_result = None
    /\ SearchIdle
    /\ api = "sample"
    /\ \E inp \in Inputs : POPULAR_MODELS = inp[1] /\ page = inp[2]
    /\ today = Date1
    /\ run = 0
    /\ tape = <<>>
    /\ first_files = [popular |-> None, best |-> None]
    /\ models_list = <<>>
    /\ idx = 1
    /\ enriched = <<>>
    /\ files = [popular |-> None, best |-> None]
    /\ outcome = <<>>
    /\ src = <<>>

Next ==
    \/ LoadPricingEntry
    \/ LoadPricingDone
    \/ MainStart
    \/ NameBegin
    \/ SendRequest
    \/ ScoreResult
    \/ SearchFinish
    \/ NameEnd
    \/ WritePopular
    \/ Scrape
    \/ IdBegin
    \/ IdFallback
    \/ IdEnd
    \/ WriteCollection

Spec == Init /\ [][Next]_vars

\* two runs of the script, the second given the inputs and the API responses of the
\* first
InitTwoRuns ==
    /\ pc = "load"
    /\ pricing_file \in SamplePricing
    /\ PRICING_DATA = <<>>
    /\ load_i = 1
    /\ lookup_name = NoneVal
    /\ lookup_result = None
    /\ SearchIdle
    /\ api = "sample"
    /\ \E inp \in TwoRunInputs : POPULAR_MODELS = inp[1] /\ page = inp[2]
    /\ today = Date1
    /\ run = 1
    /\ tape = <<>>
    /\ first_files = [popular |-> None, best |-> None]
    /\ models_list = <<>>
    /\ idx = 1
    /\ enriched = <<>>
    /\ files = [popular |-> None, best |-> None]
    /\ outcome = <<>>
    /\ src = <<>>

NextTwoRuns == Next \/ ReplayRequest \/ Rerun

SpecTwoRuns == InitTwoRuns /\ [][NextTwoRuns]_vars

---------------------------------------------------------------------------
(* The price table (SpecPricing). *)

\* C5: for every entry of the loaded price table, match_pricing called with the
\* entry's stored name returns that entry's record; so does a call with the name
\* as pricing.json spells it, for the entry that was stored last under its key.
C5_StoredNameReturnsRecord ==
    pc = "loaded" =>
        /\ \A k \in 1..Len(PRICING_DATA) :
              match_pricing(PRICING_DATA[k].key) = Some(PRICING_DATA[k].rec)
        /\ InDict(PRICING_DATA, lookup_name) =>
              lookup_result = Some(DictGet(PRICING_DATA, lookup_name))
        /\ \A j \in 1..Len(pricing_file.models) :
              LET model == pricing_file.models[j]
              IN  (\A l \in (j + 1)..Len(pricing_file.models) :
                        PricingKey(pricing_file.models[l]) # PricingKey(model))
                  => match_pricing(GetDefault(model.name, <<>>)) = Some(PricingRecord(model))

\* a table with "im 4" stored before "im 4 f", looked up by the longer name
C5_Witness ==
    /\ pc = "loaded"
    /\ Len(PRICING_DATA) = 2
    /\ PRICING_DATA[1].key = <<"i", "m", " ", "4">>
    /\ PRICING_DATA[2].key = <<"i", "m", " ", "4", " ", "f">>
    /\ lookup_name = PRICING_DATA[2].key
    /\ lookup_result = Some(PRICING_DATA[2].rec)
    /\ PRICING_DATA[1].rec # PRICING_DATA[2].rec

---------------------------------------------------------------------------
(* search_model_details (SpecSearch). *)

\* C2: a candidate is returned only with a score of at least 40: a best candidate
\* that is neither an exact nor a substring match and shares fewer than two words
\* is rejected (None is returned), with or without the creator bonus.
C2_BelowThresholdRejected ==
    spc = "returned" =>
        /\ search_ret # None => search_ret = best_match /\ best_score >= 40
        /\ (best_kind = "words" /\ best_base < 40) => search_ret = None

\* one shared word and the creator bonus: 30, rejected
C2_Witness ==
    /\ spc = "returned"
    /\ ~raised
    /\ creator = Google
    /\ best_kind = "words"
    /\ best_base = 20
    /\ best_score = 30
    /\ best_match # None
    /\ search_ret = None

\* C3: when the results received hold a case-insensitive exact match and otherwise
\* only substring matches, the candidate returned is the exact match, in whatever
\* order they came and with or without the creator bonus on the partial ones.
C3_ExactBeatsPartial ==
    (spc = "returned" /\ "exact" \in offered /\ offered \subseteq {"exact", "contains"}) =>
        /\ search_ret # None
        /\ search_ret = best_match
        /\ best_kind = "exact"
        /\ best_score >= 100
        /\ Lower(search_ret[1].name) \in
              {Lower(model_name)} \cup {Lower(search_terms[k]) : k \in 1..Len(search_terms)}

\* "Im 4" (80, and 10 for the creator) scored before "im 4 f" for "Im 4 F"
C3_Witness ==
    /\ spc = "returned"
    /\ model_name = ImFast
    /\ creator = Google
    /\ offered = {"exact", "contains"}
    /\ scored = {90, 100}
    /\ search_ret # None
    /\ Lower(search_ret[1].name) = Lower(ImFast)

InCall == spc \in {"request", "score"}

\* C10: best_score is the maximum of the scores computed so far and never
\* decreases; best_match changes only for a strictly greater score (the first seen
\* keeps a tie); a candidate returned is best_match, its score that maximum; a
\* score of 100 or more ends the call at once, one request posted per variation
\* tried and none for the remaining ones.
C10_BestIsMaxAndShortCircuit ==
    /\ [](spc # "idle" => best_score = Max(scored \cup {0}))
    /\ [](spc = "score" => requests = term_i)
    /\ []((spc = "returned" /\ search_ret # None) =>
            /\ search_ret = best_match
            /\ best_score = Max(scored))
    /\ []((spc = "returned" /\ \E sc \in scored : sc >= 100) =>
            /\ search_ret = best_match /\ search_ret # None
            /\ requests = term_i /\ term_i <= Len(search_terms))
    /\ [][InCall => best_score' >= best_score]_vars
    /\ [][(InCall /\ best_match' # best_match) => best_score' > best_score]_vars
    /\ [][(InCall /\ \E sc \in scored' : sc >= 100) =>
            (spc' = "returned" /\ requests' = requests)]_vars

\* a perfect match on the first of two variations, after a lower score
C10_Witness ==
    /\ spc = "returned"
    /\ search_ret # None
    /\ best_score >= 100
    /\ Cardinality(scored) >= 2
    /\ term_i = 1
    /\ Len(search_terms) = 2
    /\ requests = 1

---------------------------------------------------------------------------
(* The enrichment loops and the files written (Spec). *)

ByName == pc \in {"by_name", "by_name_search", "scrape"}

ById == pc \in {"by_id", "by_id_name", "by_id_id"} \/ (pc = "done" /\ files.best # None)

Written == {f[1] : f \in {files.popular, files.best} \ {None}}

PriceOf(record) ==
    [price_usd |-> record.price_usd, price_configuration |-> record.price_configuration,
     price_discount |-> record.price_discount]

\* C1: no record of an entry whose resolution failed is in the list being built,
\* and no record of that list or of a file written has a null air.
C1_NoFailedAndNoNullAir ==
    /\ \A k \in 1..Len(enriched) : outcome[src[k]].ok /\ enriched[k].air # NoneVal
    /\ \A f \in Written : \A k \in 1..Len(f.models) : f.models[k].air # NoneVal

\* C4: in every file written, total_models is the length of models.
C4_TotalEqualsLength == \A f \in Written : f.total_models = Len(f.models)

\* both files written, the second with fewer records than the page has models
C4_Witness ==
    /\ pc = "done"
    /\ files.popular # None
    /\ files.best # None
    /\ files.best[1].total_models = 1
    /\ Len(models_list) = 2
    /\ files.popular[1].total_models = 1

\* C6 as claimed: the price of every record, of either loop, is match_pricing of
\* the name the search API returned for its entry.
C6_PriceKeyedOnResolvedName ==
    \A k \in 1..Len(enriched) :
        outcome[src[k]].resolved # NoneVal =>
            PriceOf(enriched[k]) = PriceFields(match_pricing(outcome[src[k]].resolved))

\* C6 as amended: the price of every record is match_pricing of the record's own
\* name: in enrich_models_by_id the name the search API returned (the scraped name
\* when that one is null or empty), in enrich_models_by_name the input name.
C6_PriceKeyedOnRecordName ==
    \A k \in 1..Len(enriched) :
        /\ PriceOf(enriched[k]) = PriceFields(match_pricing(enriched[k].name))
        /\ ByName => enriched[k].name = models_list[src[k]].name
        /\ ById => enriched[k].name =
                      IF Truthy(outcome[src[k]].resolved) THEN outcome[src[k]].resolved
                      ELSE models_list[src[k]].name

\* a record of each loop whose resolved name differs from the entry's name, the two
\* names priced differently
C6_Witness ==
    /\ PRICING_DATA # <<>>
    /\ \E k \in 1..Len(enriched) :
        /\ outcome[src[k]].resolved \notin {NoneVal, models_list[src[k]].name}
        /\ match_pricing(outcome[src[k]].resolved) # match_pricing(models_list[src[k]].name)
        /\ enriched[k].price_usd # Absent
        /\ ById
    /\ files.popular # None
    /\ \E k \in 1..Len(files.popular[1].models) :
        LET r == files.popular[1].models[k]
        IN  /\ r.price_usd = P010
            /\ r.air = <<"g", ":", "1">>

\* C7: an entry whose search ended in an exception is treated as not resolved: no
\* record is emitted for it, the loop goes on to the next entry, every entry of the
\* list has been processed when the file is written, and every entry resolved is
\* emitted.  (In enrich_models_by_id the search meant is the last one made for the
\* entry: an exception in the search by name is followed by the search by id.)
C7_ExceptionIsNoMatch ==
    /\ [](spc = "returned" /\ raised => search_ret = None)
    /\ [](\A j \in 1..Len(outcome) :
            /\ outcome[j].raised => (~outcome[j].ok /\ \A k \in 1..Len(src) : src[k] # j)
            /\ outcome[j].ok => \E k \in 1..Len(src) : src[k] = j)
    /\ [](Len(outcome) = idx - 1)
    /\ []((pc = "scrape" \/ (pc = "done" /\ files.best # None))
            => Len(outcome) = Len(models_list))
    /\ [][(pc = "by_name_search" /\ spc = "returned" /\ raised) =>
            (pc' = "by_name" /\ idx' = idx + 1 /\ enriched' = enriched)]_vars
    /\ [][(pc = "by_name_search" /\ raised') => (spc' = "returned" /\ search_ret' = None)]_vars

\* the first entry's search raised, the second entry was resolved and emitted
C7_Witness ==
    /\ pc = "scrape"
    /\ Len(models_list) = 2
    /\ outcome[1].raised
    /\ outcome[2].ok
    /\ src = <<2>>
    /\ files.popular[1].total_models = 1

\* C8: the records are in the order of their entries: record k is the record of
\* entry src[k], src is strictly increasing and holds exactly the entries resolved,
\* and a file written holds the list as built.
C8_OutputInInputOrder ==
    /\ Len(src) = Len(enriched)
    /\ \A k \in 1..Len(src) : src[k] \in 1..Len(outcome)
    /\ \A k, l \in 1..Len(src) : k < l => src[k] < src[l]
    /\ {src[k] : k \in 1..Len(src)} = {j \in 1..Len(outcome) : outcome[j].ok}
    /\ \A k \in 1..Len(enriched) :
        /\ ByName => /\ enriched[k].name = models_list[src[k]].name
                     /\ enriched[k].creator = models_list[src[k]].creator
        /\ ById => enriched[k].model_id = models_list[src[k]].model_id
    /\ pc = "scrape" => files.popular[1].models = enriched
    /\ (pc = "done" /\ files.best # None) => files.best[1].models = enriched

\* two different entries, both emitted
C8_Witness ==
    /\ pc = "done"
    /\ files.best # None
    /\ Len(enriched) = 2
    /\ enriched[1].model_id # enriched[2].model_id
    /\ Len(files.popular[1].models) = 1

---------------------------------------------------------------------------
(* Two runs (SpecTwoRuns). *)

Undated(f) == IF f = None THEN None ELSE Some([f[1] EXCEPT !.date_extracted = NoneVal])

\* C9: a second run on the same pricing.json, list and page, answered by the API
\* as the first run was, writes the same files as the first but for
\* date_extracted, whatever the taskUUIDs of its requests; it asks for exactly the
\* responses the first run asked for.
C9_SecondRunWritesTheSame ==
    (run = 2 /\ pc = "done") =>
        /\ Undated(files.popular) = Undated(first_files.popular)
        /\ Undated(files.best) = Undated(first_files.best)
        /\ tape = <<>>

\* both runs done, on different days, each file with a record
C9_Witness ==
    /\ run = 2
    /\ pc = "done"
    /\ files.popular # None /\ files.best # None
    /\ files.popular[1].total_models = 1
    /\ files.best[1].total_models = 1
    /\ files.popular[1].date_extracted # first_files.popular[1].date_extracted
    /\ first_files.popular[1].total_models = 1

====
